---- MODULE Spec2Model ----
(***************************************************************************)
(* Model of the two vendor shims of device_xiaomi_sdm710-common:           *)
(*   fod/FingerprintInscreen.cpp  - the in-display fingerprint HIDL bridge *)
(*   parts/.../dirac/DiracUtils.java - the Dirac sound effect forwarder    *)
(* The bridge is modelled in four parts (construction and geometry, the    *)
(* sysfs writers, the callback path, the fod_ui worker) and the forwarder  *)
(* in one; each part has its own next-state relation over the common Init. *)
(* Strings are sequences of one-character strings.                         *)
(***************************************************************************)
EXTENDS Integers, Sequences, FiniteSets, TLC

VARIABLES
    \* ---- FingerprintInscreen: callback registration and event delivery
    mCallback,      \* sp<IFingerprintInscreenCallback>, 0 is nullptr
    mCallbackLock,  \* std::mutex: 0 when free, else the thread holding it
    tpc,            \* per binder thread: position in the running method
    targ,           \* per binder thread: arguments of the running call
    tret,           \* per binder thread: value the running call will return
    cbAtLock,       \* per binder thread: mCallback when the thread took the lock
    delivered,      \* per binder thread: notifications made by the running call
    logged,         \* per binder thread: LOG(ERROR) lines of the running call
    \* ---- FingerprintInscreen: sysfs writers
    sysfsFile,      \* content of the fod_pressed and fod_status attributes
    sysfsWrites,    \* every write made so far, as <<path, value>>, in order
    fodCalls,       \* the HIDL calls made so far, in order
    \* ---- FingerprintInscreen: fod_ui worker thread
    wpc,            \* position of the worker
    fodUi,          \* first byte the fod_ui attribute currently shows
    readBoolRet,    \* value readBool(fd) returns in the current iteration
    iterReads,      \* read(2) calls made in the current iteration
    iterByte,       \* byte obtained in the current iteration, "" when none
    wakeups,        \* poll() calls that returned rc >= 0
    pollFailures,   \* poll() calls that returned rc < 0
    extCmds,        \* extCmd calls made on the Xiaomi fingerprint HAL, in order
    wlog,           \* last LOG(ERROR) line of the worker
    \* ---- FingerprintInscreen: construction and geometry
    ctorPc,         \* position of the constructor, "ready" once it returned
    propRead,       \* constructor local: the property value GetProperty returned
    ints,           \* constructor local: std::vector<int32_t> ints
    fodPosX,
    fodPosY,
    fodSize,
    warnings,       \* LOG(WARNING) lines written by the constructor
    lastCall,       \* last HIDL method served on the constructed object
    lastRet,        \* what that method returned
    \* ---- DiracUtils
    mDiracSound,    \* static DiracSound mDiracSound: 0 is null, else the n-th object built
    constructions,  \* new DiracSound(0, 0) executed so far
    initCalls,      \* initialize() calls made so far
    music,          \* the effect object's music state (what getMusic() returns)
    headsetType,    \* the effect object's headset type
    dOp,            \* the DiracUtils method that just ran, "none" once its caller went on
    dPreset,        \* its argument when it is setLevel
    dForwarded,     \* the (band, value) pairs it passed to DiracSound.setLevel, in order
    dThrown,        \* the exception it threw, "none" when it returned
    dRet            \* what it returned when it is isDiracEnabled

cbVars == <<mCallback, mCallbackLock, tpc, targ, tret, cbAtLock, delivered, logged>>
sysfsVars == <<sysfsFile, sysfsWrites, fodCalls>>
workerVars == <<wpc, fodUi, readBoolRet, iterReads, iterByte, wakeups, pollFailures,
                extCmds, wlog>>

geomVars == <<ctorPc, propRead, ints, fodPosX, fodPosY, fodSize, warnings, lastCall, lastRet>>

diracVars == <<mDiracSound, constructions, initCalls, music, headsetType, dOp, dPreset,
               dForwarded, dThrown, dRet>>

vars == <<cbVars, sysfsVars, workerVars, geomVars, diracVars>>

\* ---------------------------------------------------------------- constants
FINGERPRINT_ACQUIRED_VENDOR == 6
VENDOR_FINGER_DOWN == 22
VENDOR_FINGER_UP == 23

\* ------------------------------------------------------------------- bounds
NumThreads == 2
NumCallbacks == 2

Threads == 1..NumThreads
Callbacks == 0..NumCallbacks
AcquiredInfos == {0, 5, FINGERPRINT_ACQUIRED_VENDOR, 7}
VendorCodes == {0, 21, VENDOR_FINGER_DOWN, VENDOR_FINGER_UP, 24, 99}

notCbVars == <<sysfsVars, workerVars, geomVars, diracVars>>
notSysfsVars == <<cbVars, workerVars, geomVars, diracVars>>
notWorkerVars == <<cbVars, sysfsVars, geomVars, diracVars>>
notGeomVars == <<cbVars, sysfsVars, workerVars, diracVars>>
notDiracVars == <<cbVars, sysfsVars, workerVars, geomVars>>

NoArg == [op |-> "none", cb |-> 0, info |-> 0, code |-> 0]

InitCallback ==
    /\ mCallback = 0
    /\ mCallbackLock = 0
    /\ tpc = [t \in Threads |-> "idle"]
    /\ targ = [t \in Threads |-> NoArg]
    /\ tret = [t \in Threads |-> FALSE]
    /\ cbAtLock = [t \in Threads |-> 0]
    /\ delivered = [t \in Threads |-> <<>>]
    /\ logged = [t \in Threads |-> 0]

\* mutant: the method body runs without taking mCallbackLock
LockNotTaken(t) == TRUE

\* std::lock_guard<std::mutex> _lock(mCallbackLock): blocks until the mutex is free
LockAvailable(t) == mCallbackLock = 0

\* ---- setCallback(callback)
CallSetCallback(t) ==
    /\ tpc[t] = "idle"
    /\ \E cb \in Callbacks :
         targ' = [targ EXCEPT ![t] = [op |-> "setCallback", cb |-> cb, info |-> 0, code |-> 0]]
    /\ tpc' = [tpc EXCEPT ![t] = "sc_lock"]
    /\ UNCHANGED <<mCallback, mCallbackLock, tret, cbAtLock, delivered, logged>>
    /\ UNCHANGED notCbVars

SetCallbackLock(t) ==
    /\ tpc[t] = "sc_lock"
    /\ LockAvailable(t)
    /\ mCallbackLock' = t
    /\ cbAtLock' = [cbAtLock EXCEPT ![t] = mCallback]
    /\ tpc' = [tpc EXCEPT ![t] = "sc_write"]
    /\ UNCHANGED <<mCallback, targ, tret, delivered, logged>>
    /\ UNCHANGED notCbVars

SetCallbackWrite(t) ==
    /\ tpc[t] = "sc_write"
    /\ mCallback' = targ[t].cb
    /\ tpc' = [tpc EXCEPT ![t] = "sc_unlock"]
    /\ UNCHANGED <<mCallbackLock, targ, tret, cbAtLock, delivered, logged>>
    /\ UNCHANGED notCbVars

\* ---- handleAcquired(acquiredInfo, vendorCode)
CallHandleAcquired(t) ==
    /\ tpc[t] = "idle"
    /\ \E info \in AcquiredInfos, code \in VendorCodes :
         targ' = [targ EXCEPT ![t] = [op |-> "handleAcquired", cb |-> 0,
                                      info |-> info, code |-> code]]
    /\ tpc' = [tpc EXCEPT ![t] = "ha_lock"]
    /\ UNCHANGED <<mCallback, mCallbackLock, tret, cbAtLock, delivered, logged>>
    /\ UNCHANGED notCbVars

HandleAcquiredLock(t) ==
    /\ tpc[t] = "ha_lock"
    /\ LockAvailable(t)
    /\ mCallbackLock' = t
    /\ cbAtLock' = [cbAtLock EXCEPT ![t] = mCallback]
    /\ tpc' = [tpc EXCEPT ![t] = "ha_check"]
    /\ UNCHANGED <<mCallback, targ, tret, delivered, logged>>
    /\ UNCHANGED notCbVars

\* mutant: the vendor codes are dispatched without testing acquiredInfo
AcquiredBranchAnyInfo(info, code) ==
    IF code = VENDOR_FINGER_DOWN THEN "ha_down"
    ELSE IF code = VENDOR_FINGER_UP THEN "ha_up"
    ELSE "ha_false"

\* the branch handleAcquired takes once mCallback is known to be non-null
AcquiredBranch(info, code) ==
    IF info = FINGERPRINT_ACQUIRED_VENDOR
    THEN IF code = VENDOR_FINGER_DOWN THEN "ha_down"
         ELSE IF code = VENDOR_FINGER_UP THEN "ha_up"
         ELSE "ha_false"
    ELSE "ha_false"

\* if (mCallback == nullptr) return false; then the acquiredInfo / vendorCode tests
HandleAcquiredCheck(t) ==
    /\ tpc[t] = "ha_check"
    /\ LET br == IF mCallback = 0 THEN "ha_false"
                 ELSE AcquiredBranch(targ[t].info, targ[t].code)
       IN IF br = "ha_false"
          THEN /\ tret' = [tret EXCEPT ![t] = FALSE]
               /\ tpc' = [tpc EXCEPT ![t] = "ha_unlock"]
          ELSE /\ tpc' = [tpc EXCEPT ![t] = br]
               /\ UNCHANGED tret
    /\ UNCHANGED <<mCallback, mCallbackLock, targ, cbAtLock, delivered, logged>>
    /\ UNCHANGED notCbVars

\* mutant: a failed notification is propagated through the boolean result
ResultFollowsIsOk(ok) == ok

\* value returned after the callback was invoked, whatever ret.isOk() says
ResultAfterNotify(ok) == TRUE

\* Return<void> ret = mCallback->onFingerDown() / onFingerUp(); log if !ret.isOk()
HandleAcquiredNotify(t) ==
    /\ tpc[t] \in {"ha_down", "ha_up"}
    /\ \E ok \in BOOLEAN :
         /\ delivered' = [delivered EXCEPT ![t] =
                Append(@, [to |-> mCallback,
                           kind |-> IF tpc[t] = "ha_down" THEN "onFingerDown"
                                    ELSE "onFingerUp",
                           ok |-> ok])]
         /\ logged' = [logged EXCEPT ![t] = IF ok THEN @ ELSE @ + 1]
         /\ tret' = [tret EXCEPT ![t] = ResultAfterNotify(ok)]
    /\ tpc' = [tpc EXCEPT ![t] = "ha_unlock"]
    /\ UNCHANGED <<mCallback, mCallbackLock, targ, cbAtLock>>
    /\ UNCHANGED notCbVars

\* end of the lock_guard's scope and return to the binder thread pool
Return(t) ==
    /\ tpc[t] \in {"sc_unlock", "ha_unlock"}
    /\ mCallbackLock' = IF mCallbackLock = t THEN 0 ELSE mCallbackLock
    /\ tpc' = [tpc EXCEPT ![t] = "idle"]
    /\ targ' = [targ EXCEPT ![t] = NoArg]
    /\ tret' = [tret EXCEPT ![t] = FALSE]
    /\ cbAtLock' = [cbAtLock EXCEPT ![t] = 0]
    /\ delivered' = [delivered EXCEPT ![t] = <<>>]
    /\ logged' = [logged EXCEPT ![t] = 0]
    /\ UNCHANGED mCallback
    /\ UNCHANGED notCbVars

\* ------------------------------------------------------------ sysfs writers
FOD_PRESSED_PATH == "fod_pressed"
FOD_STATUS_PATH == "fod_status"
FOD_PRESSED_ON == 1
FOD_PRESSED_OFF == 0
FOD_STATUS_ON == 1
FOD_STATUS_OFF == 0

MaxCalls == 4

\* both attributes exist on the device and read 0 until written
InitSysfs ==
    /\ sysfsFile = [p \in {FOD_PRESSED_PATH, FOD_STATUS_PATH} |-> 0]
    /\ sysfsWrites = <<>>
    /\ fodCalls = <<>>

\* set(path, value): std::ofstream file(path); file << value;
Set(path, value) ==
    /\ sysfsFile' = [sysfsFile EXCEPT ![path] = value]
    /\ sysfsWrites' = Append(sysfsWrites, <<path, value>>)

FodCall(name) ==
    /\ Len(fodCalls) < MaxCalls
    /\ fodCalls' = Append(fodCalls, name)
    /\ UNCHANGED notSysfsVars

OnPress ==
    /\ FodCall("onPress")
    /\ Set(FOD_PRESSED_PATH, FOD_PRESSED_ON)

\* mutant: onRelease writes the "on" value
OnReleaseWritesOn ==
    /\ FodCall("onRelease")
    /\ Set(FOD_PRESSED_PATH, FOD_PRESSED_ON)

OnRelease ==
    /\ FodCall("onRelease")
    /\ Set(FOD_PRESSED_PATH, FOD_PRESSED_OFF)

OnShowFODView ==
    /\ FodCall("onShowFODView")
    /\ Set(FOD_STATUS_PATH, FOD_STATUS_ON)

OnHideFODView ==
    /\ FodCall("onHideFODView")
    /\ Set(FOD_STATUS_PATH, FOD_STATUS_OFF)

NextSysfs ==
    \/ OnPress
    \/ OnRelease
    \/ OnShowFODView
    \/ OnHideFODView

\* ---------------------------------------------------------- fod_ui worker
COMMAND_NIT == 10
PARAM_NIT_630_FOD == 1
PARAM_NIT_NONE == 0

MaxWakeups == 3
MaxPollFailures == 2

\* first byte of what the kernel's fod_ui attribute can show
UiBytes == {"0", "1", "2"}

InitWorker ==
    /\ wpc = "open"
    /\ fodUi = "0"
    /\ readBoolRet = FALSE
    /\ iterReads = 0
    /\ iterByte = ""
    /\ wakeups = 0
    /\ pollFailures = 0
    /\ extCmds = <<>>
    /\ wlog = ""

\* the display driver changes the attribute at any time
KernelSetsFodUi ==
    /\ \E b \in UiBytes : fodUi' = b /\ b # fodUi
    /\ UNCHANGED <<wpc, readBoolRet, iterReads, iterByte, wakeups, pollFailures,
                   extCmds, wlog>>
    /\ UNCHANGED notWorkerVars

\* int fd = open(FOD_UI_PATH, O_RDONLY); if (fd < 0) { LOG(ERROR); return; }
WorkerOpen ==
    /\ wpc = "open"
    /\ \E ok \in BOOLEAN :
         IF ok THEN wpc' = "poll" /\ UNCHANGED wlog
         ELSE wpc' = "returned" /\ wlog' = "failed to open fd"
    /\ UNCHANGED <<fodUi, readBoolRet, iterReads, iterByte, wakeups, pollFailures, extCmds>>
    /\ UNCHANGED notWorkerVars

\* mutant: a failed poll ends the loop
PollFailureBreaks == "returned"

\* where the loop goes after poll() returned rc < 0: continue
AfterPollFailure == "poll"

\* rc = poll(&fodUiPoll, 1, -1); if (rc < 0) { LOG(ERROR); continue; }
WorkerPollFails ==
    /\ wpc = "poll"
    /\ pollFailures < MaxPollFailures
    /\ pollFailures' = pollFailures + 1
    /\ wlog' = "failed to poll fd"
    /\ wpc' = AfterPollFailure
    /\ UNCHANGED <<fodUi, readBoolRet, iterReads, iterByte, wakeups, extCmds>>
    /\ UNCHANGED notWorkerVars

\* poll() returned rc >= 0: the iteration goes on to readBool(fd)
WorkerWakes ==
    /\ wpc = "poll"
    /\ wakeups < MaxWakeups
    /\ wakeups' = wakeups + 1
    /\ iterReads' = 0
    /\ iterByte' = ""
    /\ readBoolRet' = FALSE
    /\ wpc' = "seek"
    /\ UNCHANGED <<fodUi, pollFailures, extCmds, wlog>>
    /\ UNCHANGED notWorkerVars

\* readBool: rc = lseek(fd, 0, SEEK_SET); if (rc) { LOG(ERROR); return false; }
ReadBoolSeek ==
    /\ wpc = "seek"
    /\ \E ok \in BOOLEAN :
         IF ok THEN wpc' = "read" /\ UNCHANGED <<readBoolRet, wlog>>
         ELSE /\ wpc' = "extCmd"
              /\ readBoolRet' = FALSE
              /\ wlog' = "failed to seek fd"
    /\ UNCHANGED <<fodUi, iterReads, iterByte, wakeups, pollFailures, extCmds>>
    /\ UNCHANGED notWorkerVars

\* mutant: the byte is compared with '1' instead of '0'
ByteIsOne(c) == c = "1"

\* return c != '0';
ByteIsTrue(c) == c # "0"

\* readBool: rc = read(fd, &c, 1); if (rc != 1) { LOG(ERROR); return false; }
ReadBoolRead ==
    /\ wpc = "read"
    /\ iterReads' = iterReads + 1
    /\ \E ok \in BOOLEAN :
         IF ok THEN /\ iterByte' = fodUi
                    /\ readBoolRet' = ByteIsTrue(fodUi)
                    /\ UNCHANGED wlog
         ELSE /\ iterByte' = ""
              /\ readBoolRet' = FALSE
              /\ wlog' = "failed to read bool from fd"
    /\ wpc' = "extCmd"
    /\ UNCHANGED <<fodUi, wakeups, pollFailures, extCmds>>
    /\ UNCHANGED notWorkerVars

\* xiaomiFingerprintService->extCmd(COMMAND_NIT, readBool(fd) ? 1 : 0), then loop
WorkerExtCmd ==
    /\ wpc = "extCmd"
    /\ extCmds' = Append(extCmds,
                     [cmd |-> COMMAND_NIT,
                      param |-> IF readBoolRet THEN PARAM_NIT_630_FOD ELSE PARAM_NIT_NONE,
                      reads |-> iterReads,
                      byte |-> iterByte])
    /\ wpc' = "poll"
    /\ UNCHANGED <<fodUi, readBoolRet, iterReads, iterByte, wakeups, pollFailures, wlog>>
    /\ UNCHANGED notWorkerVars

NextWorker ==
    \/ KernelSetsFodUi
    \/ WorkerOpen
    \/ WorkerPollFails
    \/ WorkerWakes
    \/ ReadBoolSeek
    \/ ReadBoolRead
    \/ WorkerExtCmd

\* ------------------------------------------------ construction and geometry
FOD_DEFAULT_X == 445
FOD_DEFAULT_Y == 1910
FOD_DEFAULT_SIZE == 190
INT32_MIN == -2147483647 - 1
INT32_MAX == 2147483647

MaxPropLen == 4

\* characters a property value is made of here: two digits, the separator and a
\* character that is no part of a number (no "0", so ParseInt's base is always 10)
PropAlphabet == {"5", "6", ",", "x"}
\* longer values: three valid elements, and a pair of two-digit numbers
LongPropertyValues == {<<"5", ",", "6", ",", "5">>, <<"6", "5", ",", "5", "6">>}
\* GetProperty(key, ""): the stored value, "" when the property does not exist
PropertyValues ==
    UNION {[1..n -> PropAlphabet] : n \in 0..MaxPropLen} \cup LongPropertyValues

Digits == {"0", "1", "2", "3", "4", "5", "6", "7", "8", "9"}
DigitValue(c) ==
    CASE c = "0" -> 0 [] c = "1" -> 1 [] c = "2" -> 2 [] c = "3" -> 3 [] c = "4" -> 4
      [] c = "5" -> 5 [] c = "6" -> 6 [] c = "7" -> 7 [] c = "8" -> 8 [] c = "9" -> 9

InitGeometry ==
    /\ ctorPc = "start"
    /\ propRead = <<>>
    /\ ints = <<>>
    /\ fodPosX = 0
    /\ fodPosY = 0
    /\ fodSize = 0
    /\ warnings = 0
    /\ lastCall = "none"
    /\ lastRet = 0

RECURSIVE Split(_)
\* android::base::Split(s, ","): the pieces between separators, empty ones kept
Split(s) ==
    LET commas == {i \in 1..Len(s) : s[i] = ","}
    IN IF commas = {} THEN <<s>>
       ELSE LET i == CHOOSE k \in commas : \A j \in commas : k <= j
            IN <<SubSeq(s, 1, i - 1)>> \o Split(SubSeq(s, i + 1, Len(s)))

RECURSIVE SkipSpace(_)
SkipSpace(s) == IF s # <<>> /\ s[1] = " " THEN SkipSpace(Tail(s)) ELSE s

RECURSIVE Strtoll(_, _)
\* the digits of s read left to right onto acc
Strtoll(s, acc) == IF s = <<>> THEN acc ELSE Strtoll(Tail(s), 10 * acc + DigitValue(s[1]))

\* android::base::ParseInt(s, &value, min, max): leading space skipped, an optional
\* sign, at least one digit, nothing after the digits, the value within [min, max];
\* [ok |-> FALSE] when it returns false
ParseInt(s, min, max) ==
    LET t == SkipSpace(s)
        neg == t # <<>> /\ t[1] = "-"
        body == IF t # <<>> /\ t[1] \in {"-", "+"} THEN Tail(t) ELSE t
    IN IF body = <<>> \/ \E i \in 1..Len(body) : body[i] \notin Digits
       THEN [ok |-> FALSE, value |-> 0]
       ELSE LET v == IF neg THEN 0 - Strtoll(body, 0) ELSE Strtoll(body, 0)
            IN IF v < min \/ max < v THEN [ok |-> FALSE, value |-> 0]
               ELSE [ok |-> TRUE, value |-> v]

\* mutant: an element that does not parse is replaced by its own default only
GetIntListPropertyPerElement(prop, default_values) ==
    LET strings == Split(prop)
    IN IF Len(strings) # Len(default_values)
       THEN [values |-> default_values, unexpected |-> TRUE]
       ELSE [values |-> [i \in 1..Len(strings) |->
                           IF ParseInt(strings[i], INT32_MIN, INT32_MAX).ok
                           THEN ParseInt(strings[i], INT32_MIN, INT32_MAX).value
                           ELSE default_values[i]],
             unexpected |-> \E i \in 1..Len(strings) :
                               ~ParseInt(strings[i], INT32_MIN, INT32_MAX).ok]

\* GetIntListProperty(key, default_values) on the value prop of the property:
\* the parsed list, or default_values (and a warning) on a wrong count or an
\* element that does not parse
GetIntListProperty(prop, default_values) ==
    LET strings == Split(prop)
    IN IF Len(strings) # Len(default_values)
       THEN [values |-> default_values, unexpected |-> TRUE]
       ELSE IF \E i \in 1..Len(strings) : ~ParseInt(strings[i], INT32_MIN, INT32_MAX).ok
       THEN [values |-> default_values, unexpected |-> TRUE]
       ELSE [values |-> [i \in 1..Len(strings) |->
                           ParseInt(strings[i], INT32_MIN, INT32_MAX).value],
             unexpected |-> FALSE]

\* std::max(a, b)
StdMax(a, b) == IF a < b THEN b ELSE a

\* GetProperty("persist.vendor.sys.fp.fod.location.X_Y", "") inside GetListProperty
CtorGetPosition ==
    /\ ctorPc = "start"
    /\ \E prop \in PropertyValues : propRead' = prop
    /\ ctorPc' = "position_read"
    /\ UNCHANGED <<ints, fodPosX, fodPosY, fodSize, warnings, lastCall, lastRet>>
    /\ UNCHANGED notGeomVars

\* ints = GetIntListProperty(..., {445, 1910}); fodPosX = ints[0]; fodPosY = ints[1]
CtorSetPosition ==
    /\ ctorPc = "position_read"
    /\ LET r == GetIntListProperty(propRead, <<FOD_DEFAULT_X, FOD_DEFAULT_Y>>)
       IN /\ ints' = r.values
          /\ fodPosX' = r.values[1]
          /\ fodPosY' = r.values[2]
          /\ warnings' = warnings + (IF r.unexpected THEN 1 ELSE 0)
    /\ propRead' = <<>>
    /\ ctorPc' = "position"
    /\ UNCHANGED <<fodSize, lastCall, lastRet>>
    /\ UNCHANGED notGeomVars

\* GetProperty("persist.vendor.sys.fp.fod.size.width_height", "")
CtorGetSize ==
    /\ ctorPc = "position"
    /\ \E prop \in PropertyValues : propRead' = prop
    /\ ctorPc' = "size_read"
    /\ UNCHANGED <<ints, fodPosX, fodPosY, fodSize, warnings, lastCall, lastRet>>
    /\ UNCHANGED notGeomVars

\* ints = GetIntListProperty(..., {190, 190}); warn if ints[0] != ints[1];
\* fodSize = std::max(ints[0], ints[1])
CtorSetSize ==
    /\ ctorPc = "size_read"
    /\ LET r == GetIntListProperty(propRead, <<FOD_DEFAULT_SIZE, FOD_DEFAULT_SIZE>>)
       IN /\ ints' = r.values
          /\ fodSize' = StdMax(r.values[1], r.values[2])
          /\ warnings' = warnings + (IF r.unexpected THEN 1 ELSE 0)
                                  + (IF r.values[1] # r.values[2] THEN 1 ELSE 0)
    /\ propRead' = <<>>
    /\ ctorPc' = "size"
    /\ UNCHANGED <<fodPosX, fodPosY, lastCall, lastRet>>
    /\ UNCHANGED notGeomVars

\* the worker thread is detached and the constructor returns; its locals are gone
CtorReturn ==
    /\ ctorPc = "size"
    /\ ctorPc' = "ready"
    /\ ints' = <<>>
    /\ UNCHANGED <<propRead, warnings, fodPosX, fodPosY, fodSize, lastCall, lastRet>>
    /\ UNCHANGED notGeomVars

\* a HIDL method that touches no field: records the call and what it returns
Serve(name, ret) ==
    /\ ctorPc = "ready"
    /\ lastCall' = name
    /\ lastRet' = ret
    /\ UNCHANGED <<ctorPc, propRead, ints, fodPosX, fodPosY, fodSize, warnings>>
    /\ UNCHANGED notGeomVars

GetPositionX == Serve("getPositionX", fodPosX)
GetPositionY == Serve("getPositionY", fodPosY)
GetSize == Serve("getSize", fodSize)
OnStartEnroll == Serve("onStartEnroll", 0)
OnFinishEnroll == Serve("onFinishEnroll", 0)
HandleError == \E error \in AcquiredInfos, vendorCode \in VendorCodes : Serve("handleError", FALSE)
SetLongPressEnabled == \E enabled \in BOOLEAN : Serve("setLongPressEnabled", 0)
GetDimAmount == \E brightness \in {0, 255} : Serve("getDimAmount", 0)
ShouldBoostBrightness == Serve("shouldBoostBrightness", FALSE)

NextGeometry ==
    \/ CtorGetPosition
    \/ CtorSetPosition
    \/ CtorGetSize
    \/ CtorSetSize
    \/ CtorReturn
    \/ GetPositionX
    \/ GetPositionY
    \/ GetSize
    \/ OnStartEnroll
    \/ OnFinishEnroll
    \/ HandleError
    \/ SetLongPressEnabled
    \/ GetDimAmount
    \/ ShouldBoostBrightness

\* ---------------------------------------------------------------- DiracUtils
MaxPresetLen == 5
MaxInitCalls == 2

\* characters a preset is made of here: two digits, the separator, white space and
\* a character that is no part of a number
PresetAlphabet == {"1", "2", ",", " ", "x"}
Presets == UNION {[1..n -> PresetAlphabet] : n \in 0..MaxPresetLen}
HeadsetTypes == {0, 1}

InitDirac ==
    /\ mDiracSound = 0
    /\ constructions = 0
    /\ initCalls = 0
    /\ music = 0
    /\ headsetType = 0
    /\ dOp = "none"
    /\ dPreset = <<>>
    /\ dForwarded = <<>>
    /\ dThrown = "none"
    /\ dRet = FALSE

\* what a call that is not setLevel / isDiracEnabled leaves in the call record
Called(op, thrown) ==
    /\ dOp = "none"
    /\ dOp' = op
    /\ dPreset' = <<>>
    /\ dForwarded' = <<>>
    /\ dThrown' = thrown
    /\ dRet' = FALSE
    /\ UNCHANGED notDiracVars

\* mutant: initialize() builds a new object on every call
InitializeAlways ==
    /\ initCalls < MaxInitCalls
    /\ initCalls' = initCalls + 1
    /\ constructions' = constructions + 1
    /\ mDiracSound' = constructions + 1
    /\ \E m \in {0, 1} : music' = m
    /\ headsetType' = 0
    /\ Called("initialize", "none")

\* if (mDiracSound == null) mDiracSound = new DiracSound(0, 0);
Initialize ==
    /\ initCalls < MaxInitCalls
    /\ initCalls' = initCalls + 1
    /\ IF mDiracSound = 0
       THEN /\ constructions' = constructions + 1
            /\ mDiracSound' = constructions + 1
            /\ \E m \in {0, 1} : music' = m
            /\ headsetType' = 0
       ELSE UNCHANGED <<constructions, mDiracSound, music, headsetType>>
    /\ Called("initialize", "none")

\* mDiracSound.setMusic(enable ? 1 : 0)
SetMusic ==
    /\ \E enable \in BOOLEAN :
         IF mDiracSound = 0
         THEN Called("setMusic", "NullPointerException") /\ UNCHANGED music
         ELSE Called("setMusic", "none") /\ music' = (IF enable THEN 1 ELSE 0)
    /\ UNCHANGED <<mDiracSound, constructions, initCalls, headsetType>>

\* return mDiracSound != null && mDiracSound.getMusic() == 1;
IsDiracEnabled ==
    /\ dOp = "none"
    /\ dOp' = "isDiracEnabled"
    /\ dPreset' = <<>>
    /\ dForwarded' = <<>>
    /\ dThrown' = "none"
    /\ dRet' = (mDiracSound # 0 /\ music = 1)
    /\ UNCHANGED <<mDiracSound, constructions, initCalls, music, headsetType>>
    /\ UNCHANGED notDiracVars

\* mDiracSound.setHeadsetType(paramInt)
SetHeadsetType ==
    /\ \E paramInt \in HeadsetTypes :
         IF mDiracSound = 0
         THEN Called("setHeadsetType", "NullPointerException") /\ UNCHANGED headsetType
         ELSE Called("setHeadsetType", "none") /\ headsetType' = paramInt
    /\ UNCHANGED <<mDiracSound, constructions, initCalls, music>>

\* \s of the regular expression, and what String.trim() removes
IsSpace(c) == c = " "

RECURSIVE SpacesFrom(_, _)
\* the index of the first character at or after i that is no white space
SpacesFrom(s, i) == IF i <= Len(s) /\ IsSpace(s[i]) THEN SpacesFrom(s, i + 1) ELSE i

RECURSIVE FindMatch(_, _)
\* Matcher.find() for \s*,\s* from index from: [start, end) of the leftmost match,
\* the white space on both sides of the comma taken greedily; start = 0 when none
FindMatch(s, from) ==
    IF from > Len(s) THEN [start |-> 0, end |-> 0]
    ELSE LET q == SpacesFrom(s, from)
         IN IF q <= Len(s) /\ s[q] = ","
            THEN [start |-> from, end |-> SpacesFrom(s, q + 1)]
            ELSE FindMatch(s, from + 1)

RECURSIVE SplitLoop(_, _, _)
\* Pattern.split: the pieces before each match, then the rest of the input
SplitLoop(s, index, list) ==
    LET m == FindMatch(s, index)
    IN IF m.start = 0
       THEN Append(list, SubSeq(s, index, Len(s)))
       ELSE SplitLoop(s, m.end, Append(list, SubSeq(s, index, m.start - 1)))

RECURSIVE DropTrailingEmpty(_)
DropTrailingEmpty(list) ==
    IF list # <<>> /\ list[Len(list)] = <<>>
    THEN DropTrailingEmpty(SubSeq(list, 1, Len(list) - 1))
    ELSE list

\* preset.split("\\s*,\\s*"): the input itself when nothing matches, else the
\* pieces with the trailing empty ones removed
JavaSplit(s) ==
    IF FindMatch(s, 1).start = 0 THEN <<s>>
    ELSE DropTrailingEmpty(SplitLoop(s, 1, <<>>))

RECURSIVE Trim(_)
\* String.trim(), which Float.valueOf applies first
Trim(s) ==
    IF s # <<>> /\ IsSpace(s[1]) THEN Trim(Tail(s))
    ELSE IF s # <<>> /\ IsSpace(s[Len(s)]) THEN Trim(SubSeq(s, 1, Len(s) - 1))
    ELSE s

RECURSIVE ReadDigits(_, _)
ReadDigits(s, acc) ==
    IF s = <<>> THEN acc ELSE ReadDigits(Tail(s), 10 * acc + DigitValue(s[1]))

\* Float.valueOf(str) on the numbers the alphabet can spell: [ok |-> FALSE] stands
\* for NumberFormatException
FloatValueOf(str) ==
    LET t == Trim(str)
    IN IF t = <<>> \/ \E i \in 1..Len(t) : t[i] \notin Digits
       THEN [ok |-> FALSE, value |-> 0]
       ELSE [ok |-> TRUE, value |-> ReadDigits(t, 0)]

\* mutant: the loop stops one band early (band < level.length - 1)
LastBandShort(level) == Len(level) - 2

\* the last band of: for (band = 0; band <= level.length - 1; band++)
LastBand(level) == Len(level) - 1

RECURSIVE LevelLoop(_, _, _, _)
\* the loop from band on: Float.valueOf(level[band]) is evaluated, then the call on
\* mDiracSound is made; the first exception ends the method
LevelLoop(level, band, last, sound) ==
    IF band > last THEN [forwarded |-> <<>>, thrown |-> "none"]
    ELSE LET f == FloatValueOf(level[band + 1])
         IN IF ~f.ok THEN [forwarded |-> <<>>, thrown |-> "NumberFormatException"]
            ELSE IF sound = 0 THEN [forwarded |-> <<>>, thrown |-> "NullPointerException"]
            ELSE LET rest == LevelLoop(level, band + 1, last, sound)
                 IN [forwarded |-> <<(<<band, f.value>>)>> \o rest.forwarded,
                     thrown |-> rest.thrown]

\* mutant: every element is parsed before any is forwarded
ForwardLevelsAllOrNothing(level, sound) ==
    IF \E i \in 1..Len(level) : ~FloatValueOf(level[i]).ok
    THEN [forwarded |-> <<>>, thrown |-> "NumberFormatException"]
    ELSE LevelLoop(level, 0, LastBand(level), sound)

\* the body of setLevel after the split
ForwardLevels(level, sound) == LevelLoop(level, 0, LastBand(level), sound)

\* String[] level = preset.split("\\s*,\\s*"); for each band: setLevel(band, value)
SetLevel ==
    /\ dOp = "none"
    /\ \E preset \in Presets :
         LET r == ForwardLevels(JavaSplit(preset), mDiracSound)
         IN /\ dPreset' = preset
            /\ dForwarded' = r.forwarded
            /\ dThrown' = r.thrown
    /\ dOp' = "setLevel"
    /\ dRet' = FALSE
    /\ UNCHANGED <<mDiracSound, constructions, initCalls, music, headsetType>>
    /\ UNCHANGED notDiracVars

\* the caller takes the result (or the exception) and goes on
DiracReturn ==
    /\ dOp # "none"
    /\ dOp' = "none"
    /\ dPreset' = <<>>
    /\ dForwarded' = <<>>
    /\ dThrown' = "none"
    /\ dRet' = FALSE
    /\ UNCHANGED <<mDiracSound, constructions, initCalls, music, headsetType>>
    /\ UNCHANGED notDiracVars

NextDirac ==
    \/ DiracReturn
    \/ Initialize
    \/ SetMusic
    \/ IsDiracEnabled
    \/ SetHeadsetType
    \/ SetLevel

\* -------------------------------------------------------------------- specs
Init == InitCallback /\ InitSysfs /\ InitWorker /\ InitGeometry /\ InitDirac

NextCallback ==
    \E t \in Threads :
        \/ CallSetCallback(t)
        \/ SetCallbackLock(t)
        \/ SetCallbackWrite(t)
        \/ CallHandleAcquired(t)
        \/ HandleAcquiredLock(t)
        \/ HandleAcquiredCheck(t)
        \/ HandleAcquiredNotify(t)
        \/ Return(t)

SpecCallback == Init /\ [][NextCallback]_vars
SpecSysfs == Init /\ [][NextSysfs]_vars
SpecWorker == Init /\ [][NextWorker]_vars
SpecGeometry == Init /\ [][NextGeometry]_vars
SpecDirac == Init /\ [][NextDirac]_vars

\* ------------------------------------------------- properties: callback path
InHandleAcquired(t) == tpc[t] \in {"ha_check", "ha_down", "ha_up", "ha_unlock"}
HoldsLock(t) == tpc[t] \in {"sc_write", "sc_unlock", "ha_check", "ha_down", "ha_up", "ha_unlock"}

\* C1: a finished handleAcquired call returns true iff a callback was registered,
\* acquiredInfo is 6 and vendorCode is 22 or 23; then it has made exactly one
\* notification to the registered callback (finger-down for 22, finger-up for 23);
\* in every other case it returns false and has made no notification.
C1_HandleAcquiredResult ==
    \A t \in Threads :
        /\ Len(delivered[t]) <= 1
        /\ tpc[t] = "ha_unlock" =>
             LET hit == /\ cbAtLock[t] # 0
                        /\ targ[t].info = 6
                        /\ targ[t].code \in {22, 23}
             IN /\ tret[t] = hit
                /\ hit => /\ Len(delivered[t]) = 1
                          /\ delivered[t][1].to = cbAtLock[t]
                          /\ delivered[t][1].kind =
                               (IF targ[t].code = 22 THEN "onFingerDown" ELSE "onFingerUp")
                /\ ~hit => delivered[t] = <<>>

C1_Witness ==
    \E t \in Threads :
        /\ tpc[t] = "ha_unlock"
        /\ targ[t].info = 6 /\ targ[t].code = 22
        /\ tret[t] = TRUE
        /\ Len(delivered[t]) = 1
        /\ delivered[t][1].kind = "onFingerDown"

\* C2: the null check and the notification of handleAcquired are one critical
\* section under the lock setCallback writes under: at most one thread is inside,
\* mCallback does not change while handleAcquired is inside, every notification goes
\* to the non-null callback that was stored when handleAcquired took the lock, and a
\* call that found the callback cleared returns false without notifying.
C2_CallbackCriticalSection ==
    /\ \A t, u \in Threads : (HoldsLock(t) /\ HoldsLock(u)) => t = u
    /\ \A t \in Threads :
         /\ HoldsLock(t) => mCallbackLock = t
         /\ InHandleAcquired(t) => mCallback = cbAtLock[t]
         /\ \A i \in 1..Len(delivered[t]) :
              /\ delivered[t][i].to # 0
              /\ delivered[t][i].to = cbAtLock[t]
              /\ delivered[t][i].to = mCallback
         /\ (tpc[t] = "ha_unlock" /\ cbAtLock[t] = 0) =>
              (tret[t] = FALSE /\ delivered[t] = <<>>)

C2_Witness ==
    \E t, u \in Threads :
        /\ t # u
        /\ tpc[t] = "ha_unlock"
        /\ Len(delivered[t]) = 1
        /\ tpc[u] = "sc_lock"
        /\ targ[u].cb # mCallback

\* C5 (as stated): when the notification fails, handleAcquired returns false.
C5_FailurePropagated ==
    \A t \in Threads :
        (tpc[t] = "ha_unlock" /\ Len(delivered[t]) = 1 /\ ~delivered[t][1].ok)
            => tret[t] = FALSE

\* C5 (amended): when the notification fails, the failure is logged once and
\* handleAcquired still returns true; a notification that succeeds logs nothing.
C5_FailureLoggedNotPropagated ==
    \A t \in Threads :
        (tpc[t] = "ha_unlock" /\ Len(delivered[t]) = 1) =>
            /\ tret[t] = TRUE
            /\ logged[t] = (IF delivered[t][1].ok THEN 0 ELSE 1)

C5_Witness ==
    \E t \in Threads :
        /\ tpc[t] = "ha_unlock"
        /\ Len(delivered[t]) = 1
        /\ ~delivered[t][1].ok
        /\ logged[t] = 1

\* ------------------------------------------------ properties: sysfs writers
RECURSIVE WritesOf(_)
\* the writes a sequence of calls is to produce, one per call, in call order
WritesOf(calls) ==
    IF calls = <<>> THEN <<>>
    ELSE LET c == calls[Len(calls)]
             w == IF c = "onPress" THEN <<"fod_pressed", 1>>
                  ELSE IF c = "onRelease" THEN <<"fod_pressed", 0>>
                  ELSE IF c = "onShowFODView" THEN <<"fod_status", 1>>
                  ELSE <<"fod_status", 0>>
         IN Append(WritesOf(SubSeq(calls, 1, Len(calls) - 1)), w)

LastWriteTo(path, dflt) ==
    LET idx == {i \in 1..Len(sysfsWrites) : sysfsWrites[i][1] = path}
    IN IF idx = {} THEN dflt
       ELSE sysfsWrites[CHOOSE i \in idx : \A j \in idx : j <= i][2]

\* C4: the writes are, in call order, 1 to the pressed-state path for each onPress
\* and 0 to it for each onRelease, 1 to the status path for each onShowFODView and
\* 0 to it for each onHideFODView; no call writes to the other path, and each
\* attribute holds the value last written to it.
C4_SysfsWritesFollowCalls ==
    /\ sysfsWrites = WritesOf(fodCalls)
    /\ sysfsFile["fod_pressed"] = LastWriteTo("fod_pressed", 0)
    /\ sysfsFile["fod_status"] = LastWriteTo("fod_status", 0)

C4_Witness ==
    /\ Len(fodCalls) >= 3
    /\ fodCalls[1] = "onShowFODView"
    /\ fodCalls[2] = "onPress"
    /\ fodCalls[3] = "onRelease"
    /\ SubSeq(sysfsWrites, 2, 3) = << <<"fod_pressed", 1>>, <<"fod_pressed", 0>> >>
    /\ sysfsFile["fod_pressed"] = 0
    /\ sysfsFile["fod_status"] = 1

\* ------------------------------------------------ properties: fod_ui worker
\* C8 (as stated): every extension command follows exactly one read in its iteration.
C8_OneReadPerCommand ==
    \A i \in 1..Len(extCmds) : extCmds[i].reads = 1

\* C8 (amended): every successful wakeup is followed by at most one read of one byte
\* (none when the seek fails) and then exactly one extension command with code 10,
\* whose parameter is 1 when a byte was read and it is not the character '0', and 0
\* otherwise; no extension command is issued without a preceding successful wakeup.
C8_OneCommandPerWakeup ==
    /\ iterReads <= 1
    /\ Len(extCmds) = (IF wpc \in {"seek", "read", "extCmd"} THEN wakeups - 1 ELSE wakeups)
    /\ \A i \in 1..Len(extCmds) :
         /\ extCmds[i].cmd = 10
         /\ extCmds[i].reads <= 1
         /\ extCmds[i].reads = 0 => extCmds[i].byte = ""
         /\ extCmds[i].param = (IF extCmds[i].byte \in {"", "0"} THEN 0 ELSE 1)

C8_Witness ==
    /\ wpc = "poll"
    /\ wakeups = 3
    /\ Len(extCmds) = 3
    /\ extCmds[1].reads = 1 /\ extCmds[1].byte = "2" /\ extCmds[1].param = 1
    /\ extCmds[2].reads = 0 /\ extCmds[2].param = 0
    /\ extCmds[3].reads = 1 /\ extCmds[3].byte = "0" /\ extCmds[3].param = 0

\* C9: after a failed open the worker has ended for good, having issued no
\* extension command and made no wakeup, and it never leaves that state; a failed
\* poll is logged, issues no extension command, and leaves the worker waiting in
\* poll again.
C9_WorkerFailurePolicy ==
    /\ [](wpc = "returned" =>
            (extCmds = <<>> /\ wakeups = 0 /\ pollFailures = 0 /\ wlog = "failed to open fd"))
    /\ [][/\ wpc = "returned" => (wpc' = "returned" /\ extCmds' = extCmds)
          /\ pollFailures' # pollFailures =>
               /\ wpc = "poll" /\ wpc' = "poll"
               /\ extCmds' = extCmds
               /\ wakeups' = wakeups
               /\ wlog' = "failed to poll fd"]_vars

C9_Witness ==
    /\ wpc = "poll"
    /\ pollFailures >= 2
    /\ wlog = "failed to poll fd"
    /\ Len(extCmds) >= 1

\* ------------------------------------------------------ properties: geometry
\* a non-empty string of decimal digits
IsNumeral(s) == Len(s) > 0 /\ \A i \in 1..Len(s) : s[i] \in Digits

RECURSIVE PlaceValueSum(_, _)
\* the sum over the first n characters of digit * 10^(distance from the end)
PlaceValueSum(s, n) ==
    IF n = 0 THEN 0
    ELSE DigitValue(s[n]) * 10 ^ (Len(s) - n) + PlaceValueSum(s, n - 1)

\* the pair a property value denotes: the two integers when the value is exactly two
\* valid integers separated by one comma, and the whole default pair otherwise
PairOf(prop, dflt) ==
    LET commas == {i \in 1..Len(prop) : prop[i] = ","}
    IN IF Cardinality(commas) # 1 THEN dflt
       ELSE LET c == CHOOSE i \in commas : TRUE
                l == SubSeq(prop, 1, c - 1)
                r == SubSeq(prop, c + 1, Len(prop))
            IN IF IsNumeral(l) /\ IsNumeral(r)
               THEN <<PlaceValueSum(l, Len(l)), PlaceValueSum(r, Len(r))>>
               ELSE dflt

LargerOf(pair) == CHOOSE m \in {pair[1], pair[2]} : pair[1] <= m /\ pair[2] <= m

\* C3: the position is the pair of the position property, or the whole default pair
\* (445, 1910); the size is the larger value of the pair of the size property, or of
\* (190, 190); once set, no later step changes them, and the getters return them.
C3_GeometryFixedAtConstruction ==
    /\ [][/\ ctorPc = "position_read" =>
               <<fodPosX', fodPosY'>> = PairOf(propRead, <<445, 1910>>)
          /\ ctorPc = "size_read" =>
               fodSize' = LargerOf(PairOf(propRead, <<190, 190>>))
          /\ ctorPc \notin {"start", "position_read"} =>
               (fodPosX' = fodPosX /\ fodPosY' = fodPosY)
          /\ ctorPc \in {"size", "ready"} => fodSize' = fodSize]_vars
    /\ [](/\ lastCall = "getPositionX" => lastRet = fodPosX
          /\ lastCall = "getPositionY" => lastRet = fodPosY
          /\ lastCall = "getSize" => lastRet = fodSize)

C3_Witness ==
    /\ ctorPc = "ready"
    /\ fodPosX = 56 /\ fodPosY = 5
    /\ fodSize = 66
    /\ warnings = 1
    /\ lastCall = "getSize" /\ lastRet = 66

\* ---------------------------------------------------- properties: DiracUtils
\* the positions of the commas of s, with 0 before and Len(s) + 1 after them
Boundary(s, k) ==
    LET commas == {i \in 1..Len(s) : s[i] = ","}
    IN IF k = 0 THEN 0
       ELSE IF k > Cardinality(commas) THEN Len(s) + 1
       ELSE CHOOSE i \in commas : Cardinality({j \in commas : j < i}) = k - 1

\* the text of s without its leading and trailing white space
Stripped(s) ==
    LET inked == {i \in 1..Len(s) : s[i] # " "}
    IN IF inked = {} THEN <<>>
       ELSE SubSeq(s, CHOOSE i \in inked : \A j \in inked : i <= j,
                      CHOOSE i \in inked : \A j \in inked : j <= i)

\* the comma-separated elements of a preset, each without surrounding white space
Elements(s) ==
    [k \in 1..(Cardinality({i \in 1..Len(s) : s[i] = ","}) + 1) |->
        Stripped(SubSeq(s, Boundary(s, k - 1) + 1, Boundary(s, k) - 1))]

\* the (band, value) pairs of the first n elements
PairsOf(elems, n) == [i \in 1..n |-> <<i - 1, PlaceValueSum(elems[i], Len(elems[i]))>>]

\* the index (from 1) of the first element that is no number, 0 when all are
FirstBad(elems) ==
    LET bad == {i \in 1..Len(elems) : ~IsNumeral(elems[i])}
    IN IF bad = {} THEN 0 ELSE CHOOSE i \in bad : \A j \in bad : i <= j

\* the elements setLevel works on: when the preset has a comma, the trailing empty
\* elements are not among them
Kept(s) ==
    LET e == Elements(s)
        full == {i \in 1..Len(e) : e[i] # <<>>}
    IN IF Len(e) = 1 THEN e
       ELSE IF full = {} THEN <<>>
       ELSE SubSeq(e, 1, CHOOSE i \in full : \A j \in full : j <= i)

SetLevelRan == dOp = "setLevel" /\ mDiracSound # 0

\* C6: for a preset whose N >= 1 comma-separated elements are all numbers, setLevel
\* on an initialized effect object forwards exactly the N pairs (band, value), bands
\* 0..N-1 in input order, each value the number at that position, and throws nothing.
C6_ValidPresetForwarded ==
    (SetLevelRan /\ FirstBad(Elements(dPreset)) = 0) =>
        /\ dForwarded = PairsOf(Elements(dPreset), Len(Elements(dPreset)))
        /\ dThrown = "none"

C6_Witness ==
    /\ SetLevelRan
    /\ dPreset = <<" ", "2", " ", ",", "1">>
    /\ dForwarded = << <<0, 2>>, <<1, 1>> >>
    /\ dThrown = "none"

\* C7: the effect object is built exactly once, by the first initialize(): it is
\* null before any initialize(), and after any number of them, interleaved with the
\* other calls, mDiracSound is still the first object built.
C7_InitializeOnce ==
    /\ initCalls = 0 => (mDiracSound = 0 /\ constructions = 0)
    /\ initCalls >= 1 => (mDiracSound = 1 /\ constructions = 1)

C7_Witness ==
    /\ initCalls >= 2
    /\ dOp = "initialize"
    /\ mDiracSound = 1
    /\ constructions = 1
    /\ headsetType = 1

\* C10 (as stated): when the first element that is no number is element k, setLevel
\* has forwarded the pairs of bands 0..k-1 and no other, and fails with a parse error.
C10_FailsAtFirstBadElement ==
    (SetLevelRan /\ FirstBad(Elements(dPreset)) # 0) =>
        /\ dThrown = "NumberFormatException"
        /\ dForwarded = PairsOf(Elements(dPreset), FirstBad(Elements(dPreset)) - 1)

\* C10 (amended): the same of the elements setLevel works on, which leave out the
\* trailing empty elements of a preset that has a comma: when the first of them that
\* is no number is element k, the pairs of bands 0..k-1 and no other were forwarded
\* and setLevel failed with a parse error; when all of them are numbers (the only
\* malformed elements were trailing empty ones) every one was forwarded and setLevel
\* returned normally.
C10_PartialUpdateBeforeFailure ==
    SetLevelRan =>
        LET e == Kept(dPreset)
            k == FirstBad(e)
        IN IF k # 0
           THEN /\ dThrown = "NumberFormatException"
                /\ dForwarded = PairsOf(e, k - 1)
           ELSE /\ dThrown = "none"
                /\ dForwarded = PairsOf(e, Len(e))

C10_Witness ==
    /\ SetLevelRan
    /\ dPreset = <<"1", ",", "2", ",", "x">>
    /\ dForwarded = << <<0, 1>>, <<1, 2>> >>
    /\ dThrown = "NumberFormatException"
====
